---- MODULE Spec2Model ----
(***************************************************************************)
(* Model of the trustchain commitment engine:                              *)
(*   trustchain-core/src/commitment.rs  (Commitment, ChainedCommitment,    *)
(*                                       TimestampCommitment)              *)
(*   trustchain-ion/src/commitment.rs   (IpfsCommitment, TxCommitment)     *)
(*                                                                         *)
(* Strings are sequences of one-character strings.  Candidate data (byte   *)
(* sequences) are named by their index in CandidatePool; a hasher is       *)
(* idealised as an injective naming of the bytes it accepts.               *)
(***************************************************************************)
EXTENDS Integers, Sequences, FiniteSets, TLC

\* ------------------------------------------------------------------------
\* Bounds
\* ------------------------------------------------------------------------

\* Longest chain of commitments that is built.
MaxChain == 3

\* Number of DIDs the resolver knows of.
MaxDid == 3

\* Longest list of verification methods of a document.
MaxMethods == 3

\* Largest number of output scripts of a transaction that is decoded.
MaxScripts == 3

\* ------------------------------------------------------------------------
\* Results: Ok(value) | Err(kind) | Panic (an unwrap() on None aborts)
\* ------------------------------------------------------------------------

Ok(v) == [tag |-> "Ok", val |-> v]

Err(e) == [tag |-> "Err", val |-> e]

Panic == [tag |-> "Panic", val |-> "unwrap"]

\* CommitmentError kinds, plus the two outcomes that are not errors.
CommitmentError ==
    {"DataDecodingError", "FailedToComputeHash", "FailedHashVerification",
     "FailedContentVerification", "EmptyIteratedCommitment"}

\* ------------------------------------------------------------------------
\* serde_json::Value
\* ------------------------------------------------------------------------

\* A value has one shape whatever its variant: the variant t, and the string s,
\* the number n, the members o (the <<key, value>> pairs of an object, in key
\* order) or the elements a.
JStr(s) == [t |-> "String", s |-> s, n |-> 0, o |-> <<>>, a |-> <<>>]

JNum(n) == [t |-> "Number", s |-> <<>>, n |-> n, o |-> <<>>, a |-> <<>>]

JObj(o) == [t |-> "Object", s |-> <<>>, n |-> 0, o |-> o, a |-> <<>>]

JArr(a) == [t |-> "Array", s |-> <<>>, n |-> 0, o |-> <<>>, a |-> a]

JNull == [t |-> "Null", s |-> <<>>, n |-> 0, o |-> <<>>, a |-> <<>>]

\* json!(s) for a String s.
json(s) == JStr(s)

RECURSIVE json_contains(_, _)
RECURSIVE array_contains(_, _, _, _)

\* Is there an order-preserving injection of E[i..] into D[j..] ?
array_contains(D, E, i, j) ==
    IF i > Len(E) THEN TRUE
    ELSE IF j > Len(D) THEN FALSE
    ELSE \/ (json_contains(D[j], E[i]) /\ array_contains(D, E, i + 1, j + 1))
         \/ array_contains(D, E, i, j + 1)

\* A mutant of json_contains: containment taken for equality.
json_contains_exact(candidate, expected) == candidate = expected

\* expected is contained in candidate.
json_contains(candidate, expected) ==
    CASE expected.t = "Object" ->
            /\ candidate.t = "Object"
            /\ \A i \in 1..Len(expected.o) :
                  \E j \in 1..Len(candidate.o) :
                      /\ candidate.o[j][1] = expected.o[i][1]
                      /\ json_contains(candidate.o[j][2], expected.o[i][2])
      [] expected.t = "Array" ->
            /\ candidate.t = "Array"
            /\ array_contains(candidate.a, expected.a, 1, 1)
      [] OTHER -> candidate = expected

\* ------------------------------------------------------------------------
\* Strings
\* ------------------------------------------------------------------------

ION_METHOD == <<"i", "o", "n">>

DID_DELIMITER == ":"

ION_OPERATION_COUNT_DELIMITER == "."

CID_KEY == "cid"

\* Does p occur in s at position i ?
StartsAt(s, p, i) ==
    /\ i + Len(p) - 1 <= Len(s)
    /\ \A k \in 1..Len(p) : s[i + k - 1] = p[k]

\* str::find: the first position of p in s, 0 for None.
Find(s, p) ==
    LET hits == {i \in 1..Len(s) : StartsAt(s, p, i)}
    IN IF hits = {} THEN 0 ELSE CHOOSE i \in hits : \A j \in hits : i <= j

\* &s[i..]
From(s, i) == SubSeq(s, i, Len(s))

\* str::rsplit_once(ch): the position of the last ch in s, 0 for None.
RFind(s, ch) ==
    LET hits == {i \in 1..Len(s) : s[i] = ch}
    IN IF hits = {} THEN 0 ELSE CHOOSE i \in hits : \A j \in hits : j <= i

\* ------------------------------------------------------------------------
\* Candidate data
\* ------------------------------------------------------------------------

\* An output script of a transaction.
Script(op_return, utf8, str) == [op_return |-> op_return, utf8 |-> utf8, str |-> str]

\* A byte sequence: a gzip stream of UTF-8 text (json: the text parses, to doc),
\* a serialised Bitcoin transaction with its output scripts, or neither ("raw").
Bytes(fmt, isJson, doc, scripts) ==
    [fmt |-> fmt, json |-> isJson, doc |-> doc, scripts |-> scripts]

\* The hash strings: the IPFS CID and the txid of the bytes at index i.
Cid(i) == <<"Q", ToString(i)>>

Txid(i) == <<"T", ToString(i)>>

\* The byte sequences candidate data are drawn from.
CandidatePool ==
    << \* 1: a core index file
       Bytes("gz", TRUE,
             JObj(<< <<"operations", JNum(7)>>,
                     <<"provisionalIndexFileUri", JStr(Cid(2))>> >>),
             <<>>),
       \* 2: a file whose whole content is the CID of 1
       Bytes("gz", TRUE, JStr(Cid(1)), <<>>),
       \* 3: gzip of text that is not JSON
       Bytes("gz", FALSE, JNull, <<>>),
       \* 4: neither gzip nor a transaction
       Bytes("raw", FALSE, JNull, <<>>),
       \* 5: a transaction with one ION OP_RETURN script, ion:3.<CID of 1>
       Bytes("tx", FALSE, JNull,
             << Script(FALSE, FALSE, <<"x">>),
                Script(TRUE, TRUE, <<"j", "i", "o", "n", ":", "3", ".">> \o Cid(1)) >>),
       \* 6: a transaction whose ION OP_RETURN script has no operation count delimiter
       Bytes("tx", FALSE, JNull,
             << Script(TRUE, TRUE, <<"j", "i", "o", "n", ":", "3">>) >>),
       \* 7: a file whose whole content is a Unix time
       Bytes("gz", TRUE, JNum(7), <<>>),
       \* 8: a file whose whole content is the CID of 2
       Bytes("gz", TRUE, JStr(Cid(2)), <<>>) >>

Candidates == DOMAIN CandidatePool

\* ------------------------------------------------------------------------
\* Hashers and decoders (trustchain-ion/src/commitment.rs)
\* ------------------------------------------------------------------------

\* IpfsCommitment::hasher: total.
IpfsHasher(b) == Ok(Cid(b))

\* TxCommitment::hasher: the txid of a deserialisable transaction.
TxHasher(b) ==
    IF CandidatePool[b].fmt = "tx" THEN Ok(Txid(b)) ELSE Err("FailedToComputeHash")

\* IpfsCommitment::decode_candidate_data: gunzip to a string, then parse as JSON.
IpfsDecodeBytes(bytes) ==
    IF bytes.fmt = "gz"
    THEN IF bytes.json
         THEN Ok(bytes.doc)
         ELSE Err("DataDecodingError")
    ELSE Err("DataDecodingError")

\* The same, of the candidate data at index b.
IpfsDecode(b) == IpfsDecodeBytes(CandidatePool[b])

RECURSIVE ScanScripts(_, _, _)
\* The loop over the OP_RETURN scripts: the ION data of the single ION script
\* (empty when there is none), or the error for a second ION script.
ScanScripts(scripts, i, op_return_data) ==
    IF i > Len(scripts) THEN Ok(op_return_data)
    ELSE IF ~scripts[i].utf8 THEN ScanScripts(scripts, i + 1, op_return_data)
    ELSE LET f == Find(scripts[i].str, ION_METHOD \o <<DID_DELIMITER>>)
         IN IF f = 0 THEN ScanScripts(scripts, i + 1, op_return_data)
            ELSE IF Len(op_return_data) = 0
                 THEN ScanScripts(scripts, i + 1, From(scripts[i].str, f))
                 ELSE Err("DataDecodingError")

\* serde_json::from_str of {"cid":"<cid>"}: a quote or a backslash in cid breaks
\* the string literal.
CidJson(cid) ==
    IF \E k \in 1..Len(cid) : cid[k] \in {"\"", "\\"}
    THEN Err("DataDecodingError")
    ELSE Ok(JObj(<< <<CID_KEY, JStr(cid)>> >>))

\* TxCommitment::decode_candidate_data.
TxDecodeBytes(bytes) ==
    IF bytes.fmt # "tx" THEN Err("FailedToComputeHash")
    ELSE LET op_return_scripts ==
                 SelectSeq(bytes.scripts, LAMBDA s : s.op_return)
             scan == ScanScripts(op_return_scripts, 1, <<>>)
         IN IF scan.tag = "Err" THEN scan
            ELSE IF Len(scan.val) = 0 THEN Err("DataDecodingError")
            ELSE LET operation_count_plus_cid ==
                         From(scan.val, RFind(scan.val, DID_DELIMITER) + 1)
                     q == RFind(operation_count_plus_cid, ION_OPERATION_COUNT_DELIMITER)
                 IN IF q = 0 THEN Panic
                    ELSE CidJson(From(operation_count_plus_cid, q + 1))

\* The same, of the candidate data at index b.
TxDecode(b) == TxDecodeBytes(CandidatePool[b])

\* A hasher or decoder function pointer, named by the type it comes from.
Hasher(h, b) == IF h = "Ipfs" THEN IpfsHasher(b) ELSE TxHasher(b)

Decoder(d, b) == IF d = "Ipfs" THEN IpfsDecode(b) ELSE TxDecode(b)

\* ------------------------------------------------------------------------
\* Commitments (trustchain-core/src/commitment.rs)
\* ------------------------------------------------------------------------

\* A commitment that is not a chain: its hasher, decoder, candidate data and
\* expected data.  timestamp is used by a TimestampCommitment alone.
SimpleCommitment(kind, fns, candidate_data, expected_data) ==
    [kind |-> kind, hasher |-> fns, decoder |-> fns,
     candidate_data |-> candidate_data, expected_data |-> expected_data,
     timestamp |-> 0, commitments |-> <<>>]

IpfsCommitment(candidate_data, expected_data) ==
    SimpleCommitment("IpfsCommitment", "Ipfs", candidate_data, expected_data)

TxCommitment(candidate_data, expected_data) ==
    SimpleCommitment("TxCommitment", "Tx", candidate_data, expected_data)

\* A mutant of TimestampCommitment::new: the expected data of did_commitment
\* are kept.
TimestampCommitment_new_keeps_expected(did_commitment, expected_data) ==
    [kind |-> "TimestampCommitment",
     timestamp |-> expected_data,
     expected_data |-> did_commitment.expected_data,
     hasher |-> did_commitment.hasher,
     candidate_data |-> did_commitment.candidate_data,
     decoder |-> did_commitment.decoder,
     commitments |-> <<>>]

\* TimestampCommitment::new: the hasher, candidate data and decoder of
\* did_commitment, and the Unix time as expected data.
TimestampCommitment_new(did_commitment, expected_data) ==
    [kind |-> "TimestampCommitment",
     timestamp |-> expected_data,
     expected_data |-> JNum(expected_data),
     hasher |-> did_commitment.hasher,
     candidate_data |-> did_commitment.candidate_data,
     decoder |-> did_commitment.decoder,
     commitments |-> <<>>]

\* ChainedCommitment { commitments }
Chained(commitments) ==
    [kind |-> "ChainedCommitment", hasher |-> "None", decoder |-> "None",
     candidate_data |-> 0, expected_data |-> JNull, timestamp |-> 0,
     commitments |-> commitments]

\* ChainedCommitment::new
ChainedCommitment_new(commitment) == Chained(<<commitment>>)

IsChain(c) == c.kind = "ChainedCommitment"

RECURSIVE candidate_data(_)
\* TrivialCommitment::candidate_data; a chain delegates to its first commitment
\* (first().unwrap(): only for a chain that is not empty).
candidate_data(c) ==
    IF IsChain(c) THEN candidate_data(c.commitments[1]) ELSE c.candidate_data

RECURSIVE decode_candidate_data(_)
\* TrivialCommitment::decode_candidate_data: the decoder function pointer.
decode_candidate_data(c) ==
    IF IsChain(c) THEN decode_candidate_data(c.commitments[1]) ELSE c.decoder

RECURSIVE expected_data(_)
\* Commitment::expected_data.
expected_data(c) ==
    IF IsChain(c) THEN expected_data(c.commitments[1]) ELSE c.expected_data

\* A mutant of hash: the chain's hash taken from its first commitment.
RECURSIVE hash_first(_)
hash_first(c) ==
    IF IsChain(c)
    THEN IF c.commitments = <<>> THEN Panic ELSE hash_first(c.commitments[1])
    ELSE Hasher(c.hasher, c.candidate_data)

RECURSIVE hash(_)
\* TrivialCommitment::hash: the hasher on the candidate data; the hash of a
\* chain is that of its last commitment (last().unwrap()).
hash(c) ==
    IF IsChain(c)
    THEN IF c.commitments = <<>> THEN Panic
         ELSE hash(c.commitments[Len(c.commitments)])
    ELSE Hasher(c.hasher, c.candidate_data)

\* TrivialCommitment::commitment_content: the decoder on the candidate data.
commitment_content(c) ==
    IF IsChain(c) /\ c.commitments = <<>> THEN Panic
    ELSE Decoder(decode_candidate_data(c), candidate_data(c))

\* A mutant of verify_content: the decoder's own error is passed on.
verify_content_passes_error(c) ==
    LET decoded == commitment_content(c)
    IN IF decoded.tag = "Panic" THEN "Panic"
       ELSE IF decoded.tag = "Err" THEN decoded.val
       ELSE IF ~json_contains(decoded.val, expected_data(c))
            THEN "FailedContentVerification"
            ELSE "Ok"

\* Commitment::verify_content.  The outcome is "Ok", an error kind, or "Panic".
verify_content(c) ==
    LET decoded == commitment_content(c)
    IN IF decoded.tag = "Panic" THEN "Panic"
       ELSE IF decoded.tag = "Err" THEN "DataDecodingError"
       ELSE IF ~json_contains(decoded.val, expected_data(c))
            THEN "FailedContentVerification"
            ELSE "Ok"

\* A mutant of Commitment::verify: the hash is compared before the content.
Commitment_verify_hash_first(c, target) ==
    LET h == hash(c)
    IN IF h.tag = "Panic" THEN "Panic"
       ELSE IF h.tag = "Err" THEN h.val
       ELSE IF h.val # target THEN "FailedHashVerification"
       ELSE verify_content(c)

\* A mutant of Commitment::verify: the comparison with the target is inverted.
Commitment_verify_inverted(c, target) ==
    LET content == verify_content(c)
        h == hash(c)
    IN IF content # "Ok" THEN content
       ELSE IF h.tag = "Panic" THEN "Panic"
       ELSE IF h.tag = "Err" THEN h.val
       ELSE IF h.val = target THEN "FailedHashVerification"
       ELSE "Ok"

\* A mutant of Commitment::verify: the hash is not compared with the target.
Commitment_verify_no_target(c, target) ==
    LET content == verify_content(c)
        h == hash(c)
    IN IF content # "Ok" THEN content
       ELSE IF h.tag = "Panic" THEN "Panic"
       ELSE IF h.tag = "Err" THEN h.val
       ELSE "Ok"

\* Commitment::verify (the default method).
Commitment_verify(c, target) ==
    LET content == verify_content(c)
        h == hash(c)
    IN IF content # "Ok" THEN content
       ELSE IF h.tag = "Panic" THEN "Panic"
       ELSE IF h.tag = "Err" THEN h.val
       ELSE IF h.val # target THEN "FailedHashVerification"
       ELSE "Ok"

RECURSIVE verify(_, _)
RECURSIVE ChainedCommitment_loop(_, _, _)

\* The while loop and the last call of ChainedCommitment::verify, from the
\* commitment at index i on.
ChainedCommitment_loop(commitments, i, target) ==
    IF i < Len(commitments)
    THEN LET next == commitments[i + 1]
         IN IF expected_data(next).t # "String" THEN "DataDecodingError"
            ELSE LET r == verify(commitments[i], expected_data(next).s)
                 IN IF r # "Ok" THEN r
                    ELSE ChainedCommitment_loop(commitments, i + 1, target)
    ELSE verify(commitments[i], target)

\* ChainedCommitment::verify, as one call.
ChainedCommitment_verify(c, target) ==
    LET content == verify_content(c)
    IN IF content # "Ok" THEN content
       ELSE IF Len(c.commitments) = 0 THEN "EmptyIteratedCommitment"
       ELSE ChainedCommitment_loop(c.commitments, 1, target)

\* commitment.verify(target) on a Box<dyn Commitment>.
verify(c, target) ==
    IF IsChain(c) THEN ChainedCommitment_verify(c, target)
    ELSE Commitment_verify(c, target)

\* A mutant of TimestampCommitment::to_commitment: the new expected data are
\* attached.
TimestampCommitment_to_commitment_overwrites(c, new_expected) ==
    [c EXCEPT !.expected_data = new_expected]

\* TimestampCommitment::to_commitment: the expected data stay the timestamp.
TimestampCommitment_to_commitment(c, new_expected) == c

\* ChainedCommitment::to_commitment.
ChainedCommitment_to_commitment(c, new_expected) == c

\* to_commitment of a trivial commitment without expected data of its own:
\* the expected data are attached.
Trivial_to_commitment(c, new_expected) == [c EXCEPT !.expected_data = new_expected]

\* TrivialCommitment::to_commitment on a Box<dyn TrivialCommitment>.
to_commitment(c, new_expected) ==
    CASE c.kind = "TimestampCommitment" -> TimestampCommitment_to_commitment(c, new_expected)
      [] c.kind = "ChainedCommitment" -> ChainedCommitment_to_commitment(c, new_expected)
      [] OTHER -> Trivial_to_commitment(c, new_expected)

\* A mutant of append: the new commitment is put in front.
Pushed_front(chain, trivial_commitment) ==
    Chained(<<to_commitment(trivial_commitment, json(hash(chain).val))>>
            \o chain.commitments)

\* ChainedCommitment::append past its self.hash()?: the chain with the promoted
\* commitment pushed.
Pushed(chain, trivial_commitment) ==
    Chained(Append(chain.commitments,
                   to_commitment(trivial_commitment, json(hash(chain).val))))

\* A mutant of append: a hash error is ignored and the commitment pushed anyway.
ChainedCommitment_append_ignores_error(chain, trivial_commitment) ==
    LET h == hash(chain)
    IN IF h.tag = "Panic" THEN [chain |-> chain, result |-> "Panic"]
       ELSE IF h.tag = "Err"
            THEN [chain |-> Chained(Append(chain.commitments,
                                           to_commitment(trivial_commitment, JNull))),
                  result |-> "Ok"]
       ELSE [chain |-> Pushed(chain, trivial_commitment), result |-> "Ok"]

\* ChainedCommitment::append: the chain afterwards and the result.
ChainedCommitment_append(chain, trivial_commitment) ==
    LET h == hash(chain)
    IN IF h.tag = "Panic" THEN [chain |-> chain, result |-> "Panic"]
       ELSE IF h.tag = "Err" THEN [chain |-> chain, result |-> h.val]
       ELSE [chain |-> Pushed(chain, trivial_commitment), result |-> "Ok"]

\* ------------------------------------------------------------------------
\* The verifier (trustchain-core/src/verifier.rs)
\* ------------------------------------------------------------------------

\* DIDs are numbered; as a string a DID is its number.
DIDs == 1..MaxDid

\* Result<_, VerifierError>: Ok, Err(kind(payload)), or an abort (todo!()).
\* The payload of an error is a string, <<>> for a kind without one.
VOk == [tag |-> "Ok", kind |-> "", payload |-> <<>>]

VErr(kind, payload) == [tag |-> "Err", kind |-> kind, payload |-> payload]

VPanic == [tag |-> "Panic", kind |-> "todo", payload |-> <<>>]

VNone == [tag |-> "none", kind |-> "", payload |-> <<>>]

VerifierError ==
    {"InvalidPayload", "InvalidSignature", "InvalidRoot", "UnresolvableDID",
     "ChainBuildFailure", "InvalidChain", "FailureToGetProof",
     "FailureToGetController"}

\* e.to_string(): the text of an error, which names its kind and its payload.
Display(e) == <<e.kind>> \o e.payload

\* doc.controller: Option<OneOrMany<String>>.
ControllerNone == [t |-> "None", v |-> <<>>]

ControllerOne(c) == [t |-> "One", v |-> <<c>>]

ControllerMany(cs) == [t |-> "Many", v |-> cs]

\* An entry of doc.verification_method: of the map form, with or without a
\* publicKeyJwk ("none"), or of another form (a DID URL).
VerificationMethod(form, jwk) == [form |-> form, public_key_jwk |-> jwk]

\* A document: its controller and its verification methods (an Option<Vec>).
Document(controller, present, methods) ==
    [controller |-> controller,
     verification_method |-> [some |-> present, v |-> methods]]

\* Document metadata: whether there is a property set, what its "proof" entry is
\* ("absent" or a kind of Metadata: "Map", "String", "List", "Boolean", "Null"),
\* what the "proofValue" entry of that map is, and the text of a string
\* proofValue (<<>> otherwise).
DocumentMetadata(property_set, proof, proofValue, value) ==
    [property_set |-> property_set, proof |-> proof, proofValue |-> proofValue,
     value |-> value]

\* A mutant of get_controller: the first of many controllers is taken.
get_controller_first_of_many(doc) ==
    IF doc.controller.t \in {"One", "Many"} /\ doc.controller.v # <<>>
    THEN [tag |-> "Ok", val |-> doc.controller.v[1]]
    ELSE [tag |-> "Err", val |-> 0]

\* get_controller: Ok(val), or Err(FailureToGetController).
get_controller(doc) ==
    IF doc.controller.t = "One"
    THEN [tag |-> "Ok", val |-> doc.controller.v[1]]
    ELSE [tag |-> "Err", val |-> 0]

\* A mutant of get_proof: a proofValue of any kind is taken.
get_proof_any_kind(doc_meta) ==
    IF doc_meta.property_set /\ doc_meta.proof = "Map" /\ doc_meta.proofValue # "absent"
    THEN [tag |-> "Ok", kind |-> "", payload |-> doc_meta.value]
    ELSE VErr("FailureToGetProof", <<>>)

\* get_proof: Ok(the string proofValue of the map proof of the property set),
\* or Err(FailureToGetProof).
get_proof(doc_meta) ==
    IF doc_meta.property_set
    THEN IF doc_meta.proof = "Map"
         THEN IF doc_meta.proofValue = "String"
              THEN [tag |-> "Ok", kind |-> "", payload |-> doc_meta.value]
              ELSE VErr("FailureToGetProof", <<>>)
         ELSE VErr("FailureToGetProof", <<>>)
    ELSE VErr("FailureToGetProof", <<>>)

RECURSIVE extract_keys_from(_, _)
\* The loop of extract_keys, from the i-th verification method on.
extract_keys_from(methods, i) ==
    IF i > Len(methods) THEN <<>>
    ELSE IF methods[i].form = "Map" /\ methods[i].public_key_jwk # "none"
         THEN <<methods[i].public_key_jwk>> \o extract_keys_from(methods, i + 1)
         ELSE extract_keys_from(methods, i + 1)

\* A mutant of extract_keys: the loop ends after the first key.
extract_keys_first(doc) ==
    IF doc.verification_method.some
    THEN LET public_keys == extract_keys_from(doc.verification_method.v, 1)
         IN IF public_keys = <<>> THEN <<>> ELSE <<public_keys[1]>>
    ELSE <<>>

\* extract_keys: the public keys of a document.
extract_keys(doc) ==
    IF doc.verification_method.some
    THEN extract_keys_from(doc.verification_method.v, 1)
    ELSE <<>>

\* The canonical hash of the document of a DID, idealised as a naming.
canonical_hash(d) == <<"H", ToString(d)>>

\* What a proof value decodes to: its payload (<<>> when detached) and the key
\* that signed it.
Jws(payload, signer) == [payload |-> payload, signer |-> signer]

\* verify_jws: does one of the keys verify the signature ?
verify_jws(proof_value, public_keys) ==
    \E k \in 1..Len(public_keys) : public_keys[k] = proof_value.signer

\* A mutant of verify_link: the signature is checked before the payload.
verify_link_signature_first(ddid, proof_value, udoc) ==
    IF ~verify_jws(proof_value, extract_keys(udoc))
    THEN VErr("InvalidSignature", <<ToString(ddid)>>)
    ELSE IF proof_value.payload # <<>> /\ proof_value.payload # canonical_hash(ddid)
    THEN VErr("InvalidPayload", <<ToString(ddid)>>)
    ELSE VOk

\* The proof of the link of ddid is verified against the document of its
\* controller.
verify_link(ddid, proof_value, udoc) ==
    IF proof_value.payload # <<>> /\ proof_value.payload # canonical_hash(ddid)
    THEN VErr("InvalidPayload", <<ToString(ddid)>>)
    ELSE IF ~verify_jws(proof_value, extract_keys(udoc))
    THEN VErr("InvalidSignature", <<ToString(ddid)>>)
    ELSE VOk

\* What the resolver returns for a DID.
Resolution(resolved, doc, doc_meta) ==
    [resolved |-> resolved, doc |-> doc, doc_meta |-> doc_meta]

\* A link of a DIDChain.
ChainLink(d, doc, doc_meta) == [did |-> d, doc |-> doc, doc_meta |-> doc_meta]

\* The DIDs of the links.
LinkDids(links) == {links[i].did : i \in 1..Len(links)}

\* A mutant of DIDChain_step: a document without a controller ends the chain.
DIDChain_step_absent_is_root(links, ddid, res) ==
    IF ~res.resolved
    THEN [links |-> links, next |-> ddid,
          result |-> VErr("UnresolvableDID", <<ToString(ddid)>>)]
    ELSE LET controller == get_controller(res.doc)
             link == ChainLink(ddid, res.doc, res.doc_meta)
         IN IF controller.tag = "Err" \/ controller.val = ddid
            THEN [links |-> Append(links, link), next |-> ddid, result |-> VOk]
            ELSE IF get_proof(res.doc_meta).tag = "Err"
            THEN [links |-> links, next |-> ddid, result |-> get_proof(res.doc_meta)]
            ELSE IF controller.val \in LinkDids(links)
            THEN [links |-> links, next |-> ddid,
                  result |-> VErr("ChainBuildFailure", <<"cycle">>)]
            ELSE [links |-> Append(links, link), next |-> controller.val,
                  result |-> VNone]

\* A mutant of DIDChain_step: a DID that repeats ends the chain.
DIDChain_step_cycle_is_root(links, ddid, res) ==
    IF ~res.resolved
    THEN [links |-> links, next |-> ddid,
          result |-> VErr("UnresolvableDID", <<ToString(ddid)>>)]
    ELSE LET controller == get_controller(res.doc)
             link == ChainLink(ddid, res.doc, res.doc_meta)
         IN IF controller.tag = "Err"
            THEN [links |-> links, next |-> ddid,
                  result |-> VErr("FailureToGetController", <<>>)]
            ELSE IF controller.val = ddid
            THEN [links |-> Append(links, link), next |-> ddid, result |-> VOk]
            ELSE IF get_proof(res.doc_meta).tag = "Err"
            THEN [links |-> links, next |-> ddid, result |-> get_proof(res.doc_meta)]
            ELSE IF controller.val \in LinkDids(links)
            THEN [links |-> Append(links, link), next |-> ddid, result |-> VOk]
            ELSE [links |-> Append(links, link), next |-> controller.val,
                  result |-> VNone]

\* One turn of the chain build for the DID ddid, resolved to res: the links
\* afterwards, the DID to go on with, and the result (VNone: go on).
DIDChain_step(links, ddid, res) ==
    IF ~res.resolved
    THEN [links |-> links, next |-> ddid,
          result |-> VErr("UnresolvableDID", <<ToString(ddid)>>)]
    ELSE LET controller == get_controller(res.doc)
             link == ChainLink(ddid, res.doc, res.doc_meta)
         IN IF controller.tag = "Err"
            THEN [links |-> links, next |-> ddid,
                  result |-> VErr("FailureToGetController", <<>>)]
            ELSE IF controller.val = ddid
            THEN [links |-> Append(links, link), next |-> ddid, result |-> VOk]
            ELSE IF get_proof(res.doc_meta).tag = "Err"
            THEN [links |-> links, next |-> ddid, result |-> get_proof(res.doc_meta)]
            ELSE IF controller.val \in LinkDids(links) \cup {ddid}
            THEN [links |-> links, next |-> ddid,
                  result |-> VErr("ChainBuildFailure", <<"cycle">>)]
            ELSE [links |-> Append(links, link), next |-> controller.val,
                  result |-> VNone]

\* A mutant of ChainBuildFailure: the error is returned as it is.
ChainBuildFailure_verbatim(e) == e

\* Err(e) => return Err(VerifierError::ChainBuildFailure(e.to_string()))
ChainBuildFailure(e) == VErr("ChainBuildFailure", Display(e))

\* Err(e) => return Err(VerifierError::InvalidChain(e.to_string()))
InvalidChain(e) == VErr("InvalidChain", Display(e))

\* verified_timestamp: todo!()
verified_timestamp(d) == [tag |-> "Panic", val |-> 0]

\* ------------------------------------------------------------------------
\* Inputs
\* ------------------------------------------------------------------------

\* Expected data of a first commitment.
ExpectedPool ==
    { JObj(<< <<"provisionalIndexFileUri", JStr(Cid(2))>> >>),
      JObj(<< <<"provisionalIndexFileUri", JStr(Cid(1))>> >>),
      JStr(Cid(1)) }

CidExpectedPool ==
    { JObj(<< <<CID_KEY, JStr(Cid(1))>> >>), JObj(<< <<CID_KEY, JStr(Cid(2))>> >>) }

\* The commitments a run starts from.
CommitmentPool ==
    {IpfsCommitment(b, e) : b \in {1, 2, 3, 4}, e \in ExpectedPool}
    \cup {TxCommitment(b, e) : b \in {4, 5, 6}, e \in CidExpectedPool}
    \cup {TimestampCommitment_new(IpfsCommitment(b, JNull), 7) : b \in {1, 7}}

\* The trivial commitments that are appended to a chain.
TrivialPool ==
    {IpfsCommitment(b, JNull) : b \in {2, 8}}
    \cup {TxCommitment(b, JNull) : b \in {4, 5, 6}}
    \cup {TimestampCommitment_new(IpfsCommitment(7, JNull), 7),
          Chained(<<IpfsCommitment(2, JStr(Cid(1)))>>)}

\* The commitments pushed through mut_commitments.
PushPool == {IpfsCommitment(2, JStr(Cid(8))), IpfsCommitment(8, JStr(Cid(2)))}

\* The Unix times a TimestampCommitment is made with.
TimestampPool == {7, 8}

\* The expected data a TimestampCommitment is promoted with.
PromotionPool == {JNum(7), JNum(8), JStr(Cid(1))}

\* Targets of a verification.
AllTargets == {Cid(b) : b \in Candidates} \cup {Txid(b) : b \in Candidates}

ChainTargets == {Cid(2), Cid(8), Txid(5)}

\* ------------------------------------------------------------------------
\* State
\* ------------------------------------------------------------------------

VARIABLES
    pc,            \* "commitment": a single commitment; "chain": a chain is held;
                   \* "loop": inside ChainedCommitment::verify; "done"; "aborted"
    cm,            \* the commitment; once a chain is made, its original first one
    cmTarget,      \* the target of the last verify(target) on cm
    cmResult,      \* its outcome ("none" before)
    cmContent,     \* the outcome of the last verify_content() on cm ("none" before)
    tampered,      \* cm's candidate data were replaced
    orig,          \* the commitment before that
    origTarget,    \* the target it verified against
    tsState,       \* "none"; "new": TimestampCommitment::new(tsFrom, tsArg) made
                   \* tsCm; "promoted": tsCm.to_commitment(tsExpected) was called
    tsFrom,        \* the commitment the TimestampCommitment was made from
    tsArg,         \* the Unix time it was made with
    tsCm,          \* the TimestampCommitment
    tsExpected,    \* the expected data of the promotion
    tsPromoted,    \* the commitment the promotion returned
    chain,         \* the ChainedCommitment
    mutated,       \* mut_commitments() was used on the chain
    preHash,       \* chain.hash() before the last append
    lastTrivial,   \* the trivial commitment of the last append
    preChain,      \* the chain before the last append
    appendResult,  \* the outcome of the last append ("none" before)
    target,        \* ChainedCommitment::verify: its target
    it,            \* the index of the commitment the iterator yields next
    commitment,    \* the index of the current commitment
    log,           \* the calls commitment.verify(t) made so far: <<index, t>>
    result         \* the outcome of ChainedCommitment::verify ("none" before)

\* The containment relation on its own: three values and an extension.
VARIABLES
    jState,        \* "values": three values are given; "extended": jD was extended
    jD,            \* a value (a candidate)
    jE,            \* a value (expected data)
    jF,            \* a third value
    jBase,         \* jD before it was extended
    jr             \* the last answers <<jE in jD, jF in jE, jF in jD, jD in jD>>

\* TrustchainVerifier::verify(did, root_timestamp)
VARIABLES
    vState,        \* "build", "proofs": the phase; "done"; "aborted"
    did,           \* the DID to verify
    root_timestamp,
    ddid,          \* chain build: the DID to resolve next
    lastRes,       \* chain build: what the resolver returned last
    links,         \* chain build: the links so far
    buildResult,   \* the result of the chain build (VNone before)
    link,          \* proof verification: the index of the link to verify next
    checked,       \* the proofs verified so far: <<[proof_value, result]>>
    proofsResult,  \* the result of the proof verification (VNone before)
    phases,        \* the phases that were started, in this order
    vResult        \* the result of verify (VNone before)

\* A decoder is applied to candidate data
VARIABLES
    dcState,       \* "idle"; "ready": not decoded yet; "done"
    dcDecoder,     \* the type the decoder comes from: "Ipfs" or "Tx"
    dcBytes,       \* the candidate data
    dcResult       \* what the decoder returned (Panic before)

\* IONController::try_from(ControllerData) and the reads of its keys
VARIABLES
    kState,        \* "idle"; "ready": before try_from; "built"; "failed"
    key_manager,   \* the stored keys: suffix -> key type -> key or "none"
    kBefore,       \* key_manager before try_from
    data,          \* the ControllerData
    kUpdate,       \* what update_key() returned ("none" before)
    kRecovery      \* what recovery_key() returned ("none" before)

\* get_proof and extract_keys on a resolved document
VARIABLES
    dState,        \* "idle"; "resolved"
    dDoc,          \* the document
    dMeta,         \* the document metadata
    dProof,        \* what get_proof returned (VNone before)
    dKeys          \* what extract_keys returned: [done, v]

commitmentVars ==
    <<pc, cm, cmTarget, cmResult, cmContent, tampered, orig, origTarget,
      tsState, tsFrom, tsArg, tsCm, tsExpected, tsPromoted,
      chain, mutated, preHash, lastTrivial, preChain, appendResult,
      target, it, commitment, log, result>>

jsonVars == <<jState, jD, jE, jF, jBase, jr>>

verifierVars ==
    <<vState, did, root_timestamp, ddid, lastRes, links, buildResult, link, checked,
      proofsResult, phases, vResult>>

decodeVars == <<dcState, dcDecoder, dcBytes, dcResult>>

keyVars == <<kState, key_manager, kBefore, data, kUpdate, kRecovery>>

documentVars == <<dState, dDoc, dMeta, dProof, dKeys>>

\* The variables of the smaller units.
unitVars == <<decodeVars, keyVars, documentVars>>

\* The variables the operations on commitments leave alone.
otherVars == <<jsonVars, verifierVars, unitVars>>

vars == <<commitmentVars, otherVars>>

tsVars == <<tsState, tsFrom, tsArg, tsCm, tsExpected, tsPromoted>>

cmVars == <<cm, cmTarget, cmResult, cmContent, tampered, orig, origTarget, tsVars>>

chainVars == <<chain, mutated, preHash, lastTrivial, preChain, appendResult>>

verifyVars == <<target, it, commitment, log, result>>

\* A commitment is constructed.
CommitmentInit ==
    /\ pc = "commitment"
    /\ cm \in CommitmentPool
    /\ cmTarget = <<>>
    /\ cmResult = "none"
    /\ cmContent = "none"
    /\ tampered = FALSE
    /\ orig = cm
    /\ origTarget = <<>>
    /\ tsState = "none"
    /\ tsFrom = Chained(<<>>)
    /\ tsArg = 0
    /\ tsCm = Chained(<<>>)
    /\ tsExpected = JNull
    /\ tsPromoted = Chained(<<>>)
    /\ chain = Chained(<<>>)
    /\ mutated = FALSE
    /\ preHash = Panic
    /\ lastTrivial = cm
    /\ preChain = Chained(<<>>)
    /\ appendResult = "none"
    /\ target = <<>>
    /\ it = 0
    /\ commitment = 0
    /\ log = <<>>
    /\ result = "none"

\* No commitment is held.
CommitmentIdle ==
    /\ pc = "idle"
    /\ cm = Chained(<<>>)
    /\ cmTarget = <<>>
    /\ cmResult = "none"
    /\ cmContent = "none"
    /\ tampered = FALSE
    /\ orig = Chained(<<>>)
    /\ origTarget = <<>>
    /\ tsState = "none"
    /\ tsFrom = Chained(<<>>)
    /\ tsArg = 0
    /\ tsCm = Chained(<<>>)
    /\ tsExpected = JNull
    /\ tsPromoted = Chained(<<>>)
    /\ chain = Chained(<<>>)
    /\ mutated = FALSE
    /\ preHash = Panic
    /\ lastTrivial = Chained(<<>>)
    /\ preChain = Chained(<<>>)
    /\ appendResult = "none"
    /\ target = <<>>
    /\ it = 0
    /\ commitment = 0
    /\ log = <<>>
    /\ result = "none"

\* No value is held.
JsonIdle ==
    /\ jState = "idle"
    /\ jD = JNull
    /\ jE = JNull
    /\ jF = JNull
    /\ jBase = JNull
    /\ jr = <<FALSE, FALSE, FALSE, FALSE>>

\* verify has not been called.
VerifierIdle ==
    /\ vState = "idle"
    /\ did = 0
    /\ root_timestamp = 0
    /\ ddid = 0
    /\ lastRes = [resolved |-> FALSE,
                  doc |-> [controller |-> [t |-> "None", v |-> <<>>],
                           verification_method |-> [some |-> FALSE, v |-> <<>>]],
                  doc_meta |-> [property_set |-> FALSE, proof |-> "absent",
                                proofValue |-> "absent", value |-> <<>>]]
    /\ links = <<>>
    /\ buildResult = VNone
    /\ link = 0
    /\ checked = <<>>
    /\ proofsResult = VNone
    /\ phases = <<>>
    /\ vResult = VNone

\* No decoder is applied.
DecodeIdle ==
    /\ dcState = "idle"
    /\ dcDecoder = "Ipfs"
    /\ dcBytes = Bytes("raw", FALSE, JNull, <<>>)
    /\ dcResult = Panic

\* No controller is made.
KeyIdle ==
    /\ kState = "idle"
    /\ key_manager = <<>>
    /\ kBefore = <<>>
    /\ data = [did |-> 0, controlled_did |-> 0, update_key |-> "none",
               recovery_key |-> "none"]
    /\ kUpdate = "none"
    /\ kRecovery = "none"

\* No document is held.
DocumentIdle ==
    /\ dState = "idle"
    /\ dDoc = Document(ControllerNone, FALSE, <<>>)
    /\ dMeta = DocumentMetadata(FALSE, "absent", "absent", <<>>)
    /\ dProof = VNone
    /\ dKeys = [done |-> FALSE, v |-> <<>>]

UnitIdle == DecodeIdle /\ KeyIdle /\ DocumentIdle

Init == CommitmentInit /\ JsonIdle /\ VerifierIdle /\ UnitIdle

\* cm.verify_content()
VerifyContent ==
    /\ pc = "commitment"
    /\ cmContent' = verify_content(cm)
    /\ UNCHANGED <<pc, cm, cmTarget, cmResult, tampered, orig, origTarget, tsVars>>
    /\ UNCHANGED <<chainVars, verifyVars>>
    /\ UNCHANGED otherVars

\* cm.verify(t)
Verify(t) ==
    /\ pc = "commitment"
    /\ cmTarget' = t
    /\ cmResult' = verify(cm, t)
    /\ UNCHANGED <<pc, cm, cmContent, tampered, orig, origTarget, tsVars>>
    /\ UNCHANGED <<chainVars, verifyVars>>
    /\ UNCHANGED otherVars

\* The candidate data of a commitment that verified are replaced by other bytes.
Tamper(b) ==
    /\ pc = "commitment"
    /\ ~tampered
    /\ cmResult = "Ok"
    /\ b # cm.candidate_data
    /\ cm' = [cm EXCEPT !.candidate_data = b]
    /\ tampered' = TRUE
    /\ orig' = cm
    /\ origTarget' = cmTarget
    /\ cmTarget' = <<>>
    /\ cmResult' = "none"
    /\ cmContent' = "none"
    /\ UNCHANGED <<pc, tsVars, chainVars, verifyVars>>
    /\ UNCHANGED otherVars

\* TimestampCommitment::new(cm, ts)
TimestampNew(ts) ==
    /\ pc = "commitment"
    /\ cm.kind # "TimestampCommitment"
    /\ tsState' = "new"
    /\ tsFrom' = cm
    /\ tsArg' = ts
    /\ tsCm' = TimestampCommitment_new(cm, ts)
    /\ tsExpected' = JNull
    /\ tsPromoted' = Chained(<<>>)
    /\ UNCHANGED <<pc, cm, cmTarget, cmResult, cmContent, tampered, orig, origTarget>>
    /\ UNCHANGED <<chainVars, verifyVars>>
    /\ UNCHANGED otherVars

\* Box::new(tsCm).to_commitment(e)
TimestampToCommitment(e) ==
    /\ pc = "commitment"
    /\ tsState = "new"
    /\ tsState' = "promoted"
    /\ tsExpected' = e
    /\ tsPromoted' = to_commitment(tsCm, e)
    /\ UNCHANGED <<pc, cm, cmTarget, cmResult, cmContent, tampered, orig, origTarget>>
    /\ UNCHANGED <<tsFrom, tsArg, tsCm, chainVars, verifyVars>>
    /\ UNCHANGED otherVars

\* ChainedCommitment::new(cm)
New ==
    /\ pc = "commitment"
    /\ ~tampered
    /\ pc' = "chain"
    /\ chain' = ChainedCommitment_new(cm)
    /\ cmTarget' = <<>>
    /\ cmResult' = "none"
    /\ cmContent' = "none"
    /\ tampered' = FALSE
    /\ orig' = cm
    /\ origTarget' = <<>>
    /\ tsState' = "none"
    /\ tsFrom' = Chained(<<>>)
    /\ tsArg' = 0
    /\ tsCm' = Chained(<<>>)
    /\ tsExpected' = JNull
    /\ tsPromoted' = Chained(<<>>)
    /\ UNCHANGED <<cm, mutated, preHash, lastTrivial, preChain, appendResult, verifyVars>>
    /\ UNCHANGED otherVars

\* chain.append(t)
AppendTrivial(t) ==
    /\ pc = "chain"
    /\ Len(chain.commitments) < MaxChain
    /\ LET r == ChainedCommitment_append(chain, t)
       IN /\ chain' = r.chain
          /\ appendResult' = r.result
          /\ pc' = IF r.result = "Panic" THEN "aborted" ELSE "chain"
    /\ preHash' = hash(chain)
    /\ preChain' = chain
    /\ lastTrivial' = t
    /\ UNCHANGED <<cmVars, mutated, verifyVars>>
    /\ UNCHANGED otherVars

\* chain.mut_commitments().clear()
MutCommitmentsClear ==
    /\ pc = "chain"
    /\ chain.commitments # <<>>
    /\ chain' = Chained(<<>>)
    /\ mutated' = TRUE
    /\ appendResult' = "none"
    /\ preHash' = Panic
    /\ lastTrivial' = cm
    /\ preChain' = Chained(<<>>)
    /\ UNCHANGED <<cmVars, verifyVars, pc>>
    /\ UNCHANGED otherVars

\* chain.mut_commitments().push(c)
MutCommitmentsPush(c) ==
    /\ pc = "chain"
    /\ Len(chain.commitments) < MaxChain
    /\ chain' = Chained(Append(chain.commitments, c))
    /\ mutated' = TRUE
    /\ appendResult' = "none"
    /\ preHash' = Panic
    /\ lastTrivial' = cm
    /\ preChain' = Chained(<<>>)
    /\ UNCHANGED <<cmVars, verifyVars, pc>>
    /\ UNCHANGED otherVars

\* ChainedCommitment::verify(t), up to the loop: the content check, the
\* emptiness check and the first it.next().
VerifyStart(t) ==
    /\ pc = "chain"
    /\ target' = t
    /\ LET content == verify_content(chain)
       IN IF content # "Ok"
          THEN /\ result' = content
               /\ pc' = IF content = "Panic" THEN "aborted" ELSE "done"
               /\ UNCHANGED <<it, commitment>>
          ELSE IF Len(chain.commitments) = 0
          THEN /\ result' = "EmptyIteratedCommitment"
               /\ pc' = "done"
               /\ UNCHANGED <<it, commitment>>
          ELSE /\ commitment' = 1
               /\ it' = 2
               /\ pc' = "loop"
               /\ UNCHANGED result
    /\ UNCHANGED <<cmVars, chainVars, log>>
    /\ UNCHANGED otherVars

\* A mutant of VerifyNext: the result of commitment.verify is dropped (no ?).
VerifyNext_ignores_error ==
    /\ pc = "loop"
    /\ it <= Len(chain.commitments)
    /\ LET next == chain.commitments[it]
       IN IF expected_data(next).t # "String"
          THEN /\ result' = "DataDecodingError"
               /\ pc' = "done"
               /\ UNCHANGED <<it, commitment, log>>
          ELSE /\ log' = Append(log, <<commitment, expected_data(next).s>>)
               /\ commitment' = it
               /\ it' = it + 1
               /\ UNCHANGED <<pc, result>>
    /\ UNCHANGED <<cmVars, chainVars, target>>
    /\ UNCHANGED otherVars

\* A mutant of VerifyNext: the current commitment is verified before the
\* expected data of the next one are matched against a string.
VerifyNext_verifies_first ==
    /\ pc = "loop"
    /\ it <= Len(chain.commitments)
    /\ LET next == chain.commitments[it]
           this_target == expected_data(next).s
           r == verify(chain.commitments[commitment], this_target)
       IN /\ log' = Append(log, <<commitment, this_target>>)
          /\ IF r # "Ok"
             THEN /\ result' = r
                  /\ pc' = IF r = "Panic" THEN "aborted" ELSE "done"
                  /\ UNCHANGED <<it, commitment>>
             ELSE IF expected_data(next).t # "String"
             THEN /\ result' = "DataDecodingError"
                  /\ pc' = "done"
                  /\ UNCHANGED <<it, commitment>>
             ELSE /\ commitment' = it
                  /\ it' = it + 1
                  /\ UNCHANGED <<pc, result>>
    /\ UNCHANGED <<cmVars, chainVars, target>>
    /\ UNCHANGED otherVars

\* One turn of the while loop: the iterator yields the next commitment, whose
\* expected data are the target of the current one.
VerifyNext ==
    /\ pc = "loop"
    /\ it <= Len(chain.commitments)
    /\ LET next == chain.commitments[it]
       IN IF expected_data(next).t # "String"
          THEN /\ result' = "DataDecodingError"
               /\ pc' = "done"
               /\ UNCHANGED <<it, commitment, log>>
          ELSE LET this_target == expected_data(next).s
                   r == verify(chain.commitments[commitment], this_target)
               IN /\ log' = Append(log, <<commitment, this_target>>)
                  /\ IF r # "Ok"
                     THEN /\ result' = r
                          /\ pc' = IF r = "Panic" THEN "aborted" ELSE "done"
                          /\ UNCHANGED <<it, commitment>>
                     ELSE /\ commitment' = it
                          /\ it' = it + 1
                          /\ UNCHANGED <<pc, result>>
    /\ UNCHANGED <<cmVars, chainVars, target>>
    /\ UNCHANGED otherVars

\* A mutant of VerifyLast: the last commitment is not verified.
VerifyLast_not_verified ==
    /\ pc = "loop"
    /\ it > Len(chain.commitments)
    /\ result' = "Ok"
    /\ pc' = "done"
    /\ UNCHANGED <<cmVars, chainVars, target, it, commitment, log>>
    /\ UNCHANGED otherVars

\* The iterator is exhausted: the last commitment is verified against the target.
VerifyLast ==
    /\ pc = "loop"
    /\ it > Len(chain.commitments)
    /\ LET r == verify(chain.commitments[commitment], target)
       IN /\ log' = Append(log, <<commitment, target>>)
          /\ result' = r
          /\ pc' = IF r = "Panic" THEN "aborted" ELSE "done"
    /\ UNCHANGED <<cmVars, chainVars, target, it, commitment>>
    /\ UNCHANGED otherVars

Next ==
    \/ VerifyContent
    \/ \E t \in AllTargets : Verify(t)
    \/ \E b \in Candidates : Tamper(b)
    \/ \E ts \in TimestampPool : TimestampNew(ts)
    \/ \E e \in PromotionPool : TimestampToCommitment(e)
    \/ New
    \/ \E t \in TrivialPool : AppendTrivial(t)
    \/ MutCommitmentsClear
    \/ \E c \in PushPool : MutCommitmentsPush(c)
    \/ \E t \in ChainTargets : VerifyStart(t)
    \/ VerifyNext
    \/ VerifyLast

Spec == Init /\ [][Next]_vars

\* ------------------------------------------------------------------------
\* The containment relation on its own
\* ------------------------------------------------------------------------

\* The values the relation is applied to.
JsonPool ==
    { JNum(7), JStr(Cid(1)), JNull, JObj(<<>>), JArr(<<>>),
      JObj(<< <<"a", JNum(7)>> >>),
      JObj(<< <<"a", JNum(7)>>, <<"b", JStr(Cid(1))>> >>),
      JObj(<< <<"a", JObj(<< <<"a", JNum(7)>> >>)>> >>),
      JObj(<< <<"a", JObj(<< <<"a", JNum(7)>>, <<"b", JStr(Cid(1))>> >>)>>,
              <<"b", JNum(7)>> >>),
      JArr(<<JNum(7)>>),
      JArr(<<JNum(7), JStr(Cid(1))>>),
      JArr(<<JStr(Cid(1)), JNum(7)>>),
      JArr(<<JObj(<< <<"a", JNum(7)>> >>), JStr(Cid(1))>>),
      JArr(<<JObj(<< <<"a", JNum(7)>>, <<"b", JStr(Cid(1))>> >>), JNum(7),
             JStr(Cid(1))>>) }

\* The members an object is extended with: keys no value of JsonPool has.
ExtensionPool ==
    { << <<"c", JNum(7)>> >>,
      << <<"d", JObj(<< <<"a", JNum(7)>> >>)>> >>,
      << <<"c", JStr(Cid(1))>>, <<"d", JNull>> >> }

\* The object D with the members x added.
Extended(D, x) == JObj(D.o \o x)

ContainInit ==
    /\ CommitmentIdle
    /\ VerifierIdle
    /\ UnitIdle
    /\ jState = "values"
    /\ jD \in JsonPool
    /\ jE \in JsonPool
    /\ jF \in JsonPool
    /\ jBase = jD
    /\ jr = <<FALSE, FALSE, FALSE, FALSE>>

\* json_contains is called on the values.
Contains ==
    /\ jState \in {"values", "extended"}
    /\ jr' = <<json_contains(jD, jE), json_contains(jE, jF), json_contains(jD, jF),
              json_contains(jD, jD)>>
    /\ UNCHANGED <<jState, jD, jE, jF, jBase, commitmentVars, verifierVars, unitVars>>

\* The object jD gets additional keys.
Extend(x) ==
    /\ jState = "values"
    /\ jD.t = "Object"
    /\ jState' = "extended"
    /\ jBase' = jD
    /\ jD' = Extended(jD, x)
    /\ jr' = <<FALSE, FALSE, FALSE, FALSE>>
    /\ UNCHANGED <<jE, jF, commitmentVars, verifierVars, unitVars>>

ContainNext ==
    \/ Contains
    \/ \E x \in ExtensionPool : Extend(x)

SpecContain == ContainInit /\ [][ContainNext]_vars

\* ------------------------------------------------------------------------
\* The verifier: verify(did, root_timestamp)
\* ------------------------------------------------------------------------

\* What the resolver may hold for a DID.
ControllerPool ==
    {ControllerNone, ControllerMany(<<1, 2>>), ControllerMany(<<1>>)}
    \cup {ControllerOne(c) : c \in DIDs}

MethodsPool ==
    { [some |-> FALSE, v |-> <<>>],
      [some |-> TRUE, v |-> <<VerificationMethod("Map", "k2")>>],
      [some |-> TRUE,
       v |-> <<VerificationMethod("Map", "k2"), VerificationMethod("DIDURL", "none"),
               VerificationMethod("Map", "none"), VerificationMethod("Map", "k1")>>] }

MetadataPool ==
    { DocumentMetadata(FALSE, "absent", "absent", <<>>),
      DocumentMetadata(TRUE, "absent", "absent", <<>>),
      DocumentMetadata(TRUE, "String", "absent", <<>>),
      DocumentMetadata(TRUE, "Map", "absent", <<>>),
      DocumentMetadata(TRUE, "Map", "Map", <<>>),
      DocumentMetadata(TRUE, "Map", "String", <<"p">>) }

\* The root timestamps verify is called with.
RootTimestampPool == {7}

\* The DID does not resolve.
Unresolvable ==
    Resolution(FALSE, Document(ControllerNone, FALSE, <<>>),
               DocumentMetadata(FALSE, "absent", "absent", <<>>))

ResolutionPool ==
    {Unresolvable}
    \cup {Resolution(TRUE, Document(c, m.some, m.v), meta) :
             c \in ControllerPool, m \in MethodsPool, meta \in MetadataPool}

\* What the proof value of the link of d may decode to: no payload, the hash of
\* the document of d or that of another document; signed with one of two keys.
JwsPool(d) ==
    {Jws(p, k) : p \in {<<>>, canonical_hash(d), canonical_hash((d % MaxDid) + 1)},
                 k \in {"k1", "k3"}}

\* verify(did, root_timestamp) is called: the chain build starts.
VerifierInit ==
    /\ CommitmentIdle
    /\ JsonIdle
    /\ UnitIdle
    /\ vState = "build"
    /\ did \in DIDs
    /\ root_timestamp \in RootTimestampPool
    /\ ddid = did
    /\ lastRes = Unresolvable
    /\ links = <<>>
    /\ buildResult = VNone
    /\ link = 0
    /\ checked = <<>>
    /\ proofsResult = VNone
    /\ phases = <<"build">>
    /\ vResult = VNone

\* One turn of DIDChain::new: ddid is resolved (to res).  When the build ends,
\* verify returns its error as a ChainBuildFailure or goes on to the proofs.
BuildLink(res) ==
    /\ vState = "build"
    /\ lastRes' = res
    /\ LET r == DIDChain_step(links, ddid, res)
       IN /\ links' = r.links
          /\ ddid' = r.next
          /\ IF r.result.tag = "none"
             THEN UNCHANGED <<vState, buildResult, link, phases, vResult>>
             ELSE IF r.result.tag = "Ok"
             THEN /\ buildResult' = VOk
                  /\ vState' = "proofs"
                  /\ phases' = Append(phases, "proofs")
                  /\ link' = 1
                  /\ UNCHANGED vResult
             ELSE /\ buildResult' = r.result
                  /\ vResult' = ChainBuildFailure(r.result)
                  /\ vState' = "done"
                  /\ UNCHANGED <<link, phases>>
    /\ UNCHANGED <<did, root_timestamp, checked, proofsResult>>
    /\ UNCHANGED <<commitmentVars, jsonVars, unitVars>>

\* A mutant of VerifyProof: after a proof that fails the next link is taken.
VerifyProof_goes_on ==
    /\ vState = "proofs"
    /\ link < Len(links)
    /\ \E proof_value \in JwsPool(links[link].did) :
       LET r == verify_link(links[link].did, proof_value, links[link + 1].doc)
       IN /\ checked' = Append(checked, [proof_value |-> proof_value, result |-> r])
          /\ link' = link + 1
          /\ UNCHANGED <<vState, proofsResult, vResult>>
    /\ UNCHANGED <<did, root_timestamp, ddid, lastRes, links, buildResult, phases>>
    /\ UNCHANGED <<commitmentVars, jsonVars, unitVars>>

\* A mutant of VerifyProof: the proof of the last link is verified too, against
\* the document of that link.
VerifyProof_checks_terminal ==
    /\ vState = "proofs"
    /\ link <= Len(links)
    /\ \E proof_value \in JwsPool(links[link].did) :
       LET parent == IF link < Len(links) THEN links[link + 1] ELSE links[link]
           r == verify_link(links[link].did, proof_value, parent.doc)
       IN /\ checked' = Append(checked, [proof_value |-> proof_value, result |-> r])
          /\ IF r.tag = "Ok"
             THEN /\ link' = link + 1
                  /\ UNCHANGED <<vState, proofsResult, vResult>>
             ELSE /\ proofsResult' = r
                  /\ vResult' = InvalidChain(r)
                  /\ vState' = "done"
                  /\ UNCHANGED link
    /\ UNCHANGED <<did, root_timestamp, ddid, lastRes, links, buildResult, phases>>
    /\ UNCHANGED <<commitmentVars, jsonVars, unitVars>>

\* One turn of chain.verify_proofs(): the proof of the link at index link, which
\* decodes to proof_value, is verified against the document of the next link.
\* When it fails, verify returns the error as an InvalidChain.
VerifyProof ==
    /\ vState = "proofs"
    /\ link < Len(links)
    /\ \E proof_value \in JwsPool(links[link].did) :
       LET r == verify_link(links[link].did, proof_value, links[link + 1].doc)
       IN /\ checked' = Append(checked, [proof_value |-> proof_value, result |-> r])
          /\ IF r.tag = "Ok"
             THEN /\ link' = link + 1
                  /\ UNCHANGED <<vState, proofsResult, vResult>>
             ELSE /\ proofsResult' = r
                  /\ vResult' = InvalidChain(r)
                  /\ vState' = "done"
                  /\ UNCHANGED link
    /\ UNCHANGED <<did, root_timestamp, ddid, lastRes, links, buildResult, phases>>
    /\ UNCHANGED <<commitmentVars, jsonVars, unitVars>>

\* Every proof is verified: the timestamp of the root is compared.
VerifyRoot ==
    /\ vState = "proofs"
    /\ link = Len(links)
    /\ proofsResult' = VOk
    /\ phases' = Append(phases, "root")
    /\ LET root == links[Len(links)].did
           t == verified_timestamp(root)
       IN /\ vResult' = IF t.tag = "Panic" THEN VPanic
                        ELSE IF t.val # root_timestamp
                        THEN VErr("InvalidRoot", <<ToString(root)>>)
                        ELSE VOk
          /\ vState' = IF t.tag = "Panic" THEN "aborted" ELSE "done"
    /\ UNCHANGED <<did, root_timestamp, ddid, lastRes, links, buildResult, link, checked>>
    /\ UNCHANGED <<commitmentVars, jsonVars, unitVars>>

VerifierNext ==
    \/ \E res \in ResolutionPool : BuildLink(res)
    \/ VerifyProof
    \/ VerifyRoot

SpecVerifier == VerifierInit /\ [][VerifierNext]_vars

\* verify runs to its end: it is one synchronous call.
SpecVerifierLive == SpecVerifier /\ WF_vars(VerifierNext)

\* ------------------------------------------------------------------------
\* The verifier's helpers on a resolved document: get_proof, extract_keys
\* ------------------------------------------------------------------------

\* The sequences over S of length n at most.
SeqsUpTo(S, n) == UNION {[1..k -> S] : k \in 0..n}

\* The entries of verification_method: maps with a JWK, a map without, a DID URL.
MethodPool ==
    {VerificationMethod("Map", "k1"), VerificationMethod("Map", "k2"),
     VerificationMethod("Map", "none"), VerificationMethod("DIDURL", "none")}

\* The documents: without verification_method, or with a list of entries.
DocumentPool ==
    {Document(ControllerNone, FALSE, <<>>)}
    \cup {Document(ControllerNone, TRUE, ms) : ms \in SeqsUpTo(MethodPool, MaxMethods)}

\* The kinds of a Metadata value other than Map and String.
OtherMetadata == {"List", "Boolean", "Null"}

\* The document metadata: every kind of "proof" entry and of "proofValue" entry.
ProofMetadataPool ==
    {DocumentMetadata(FALSE, "absent", "absent", <<>>)}
    \cup {DocumentMetadata(TRUE, k, "absent", <<>>) :
              k \in {"absent", "String", "Map"} \cup OtherMetadata}
    \cup {DocumentMetadata(TRUE, "Map", k, <<>>) : k \in {"Map"} \cup OtherMetadata}
    \cup {DocumentMetadata(TRUE, "Map", "String", v) : v \in {<<>>, <<"p">>, <<"q">>}}

\* A document and its metadata are resolved.
DocumentInit ==
    /\ CommitmentIdle
    /\ JsonIdle
    /\ VerifierIdle
    /\ DecodeIdle
    /\ KeyIdle
    /\ dState = "resolved"
    /\ dDoc \in DocumentPool
    /\ dMeta \in ProofMetadataPool
    /\ dProof = VNone
    /\ dKeys = [done |-> FALSE, v |-> <<>>]

\* get_proof(&doc_meta)
GetProof ==
    /\ dState = "resolved"
    /\ dProof = VNone
    /\ dProof' = get_proof(dMeta)
    /\ UNCHANGED <<dState, dDoc, dMeta, dKeys>>
    /\ UNCHANGED <<commitmentVars, jsonVars, verifierVars, decodeVars, keyVars>>

\* extract_keys(&doc)
ExtractKeys ==
    /\ dState = "resolved"
    /\ ~dKeys.done
    /\ dKeys' = [done |-> TRUE, v |-> extract_keys(dDoc)]
    /\ UNCHANGED <<dState, dDoc, dMeta, dProof>>
    /\ UNCHANGED <<commitmentVars, jsonVars, verifierVars, decodeVars, keyVars>>

DocumentNext ==
    \/ GetProof
    \/ ExtractKeys

SpecDocument == DocumentInit /\ [][DocumentNext]_vars

\* ------------------------------------------------------------------------
\* The decoders on candidate data of every form
\* ------------------------------------------------------------------------

\* The output scripts: one that is no OP_RETURN, one that is not UTF-8, one
\* without the ION prefix, two ION scripts, one ION script without an operation
\* count delimiter and one whose CID holds a quote.
ScriptPool ==
    { Script(FALSE, TRUE, <<"i", "o", "n", ":", "3", ".">> \o Cid(1)),
      Script(TRUE, FALSE, <<"x">>),
      Script(TRUE, TRUE, <<"j", "a", "b">>),
      Script(TRUE, TRUE, <<"j", "i", "o", "n", ":", "3", ".">> \o Cid(1)),
      Script(TRUE, TRUE, <<"i", "o", "n", ":", "4", ".">> \o Cid(2)),
      Script(TRUE, TRUE, <<"j", "i", "o", "n", ":", "3">>),
      Script(TRUE, TRUE, <<"i", "o", "n", ":", "3", ".", "Q", "\"", "1">>) }

\* The candidate data: transactions, gzip streams (of JSON text or not), and
\* bytes that are neither.
BytesPool ==
    {Bytes("tx", FALSE, JNull, ss) : ss \in SeqsUpTo(ScriptPool, MaxScripts)}
    \cup {Bytes("gz", TRUE, JStr(Cid(1)), <<>>), Bytes("gz", FALSE, JNull, <<>>),
          Bytes("raw", FALSE, JNull, <<>>)}

\* A commitment of one of the two types holds candidate data.
DecodeInit ==
    /\ CommitmentIdle
    /\ JsonIdle
    /\ VerifierIdle
    /\ KeyIdle
    /\ DocumentIdle
    /\ dcState = "ready"
    /\ dcDecoder \in {"Ipfs", "Tx"}
    /\ dcBytes \in BytesPool
    /\ dcResult = Panic

\* decode_candidate_data()
DecodeCandidateData ==
    /\ dcState = "ready"
    /\ dcState' = "done"
    /\ dcResult' = IF dcDecoder = "Ipfs" THEN IpfsDecodeBytes(dcBytes)
                                          ELSE TxDecodeBytes(dcBytes)
    /\ UNCHANGED <<dcDecoder, dcBytes>>
    /\ UNCHANGED <<commitmentVars, jsonVars, verifierVars, keyVars, documentVars>>

DecodeNext == DecodeCandidateData

SpecDecode == DecodeInit /\ [][DecodeNext]_vars

\* ------------------------------------------------------------------------
\* The controller and its keys (trustchain-ion/src/controller.rs)
\* ------------------------------------------------------------------------

\* A DID as a string: its segments, the last being its suffix.
Did(n) == <<"did", "example", ToString(n)>>

\* get_did_suffix: the last segment of a DID.
get_did_suffix(d) == d[Len(d)]

\* The key types try_from saves, and the keys (JWKs).
KeyTypes == {"UpdateKey", "RecoveryKey"}

Keys == {"k1", "k2"}

\* The DIDs a controller is made for.
ControlledDids == {Did(1), Did(2)}

\* A mutant of save_key: nothing is stored.
save_key_nothing(store, did_suffix, key_type, key, overwrite) ==
    {[store |-> store, result |-> "Ok"]}

\* KeyManager::save_key: what it may leave stored and return.  A key that is
\* stored already is not overwritten when overwrite is false; the call may
\* then report success or failure.
save_key(store, did_suffix, key_type, key, overwrite) ==
    IF store[did_suffix][key_type] # "none" /\ ~overwrite
    THEN {[store |-> store, result |-> r] : r \in {"Ok", "Err"}}
    ELSE {[store |-> [store EXCEPT ![did_suffix][key_type] = key], result |-> "Ok"]}

\* KeyManager::read_update_key, read_recovery_key: the stored key, or "Err".
read_key(store, did_suffix, key_type) ==
    IF store[did_suffix][key_type] = "none" THEN "Err" ELSE store[did_suffix][key_type]

\* controlled_did_suffix()
controlled_did_suffix == get_did_suffix(data.controlled_did)

\* Some keys are stored, and a ControllerData is given.
KeyInit ==
    /\ CommitmentIdle
    /\ JsonIdle
    /\ VerifierIdle
    /\ DecodeIdle
    /\ DocumentIdle
    /\ kState = "ready"
    /\ key_manager \in [{get_did_suffix(d) : d \in ControlledDids} ->
                            [KeyTypes -> Keys \cup {"none"}]]
    /\ kBefore = key_manager
    /\ data \in [did : {Did(1)}, controlled_did : ControlledDids,
                  update_key : Keys, recovery_key : Keys]
    /\ kUpdate = "none"
    /\ kRecovery = "none"

\* IONController::try_from(data)
TryFrom ==
    /\ kState = "ready"
    /\ \E u \in save_key(key_manager, controlled_did_suffix, "UpdateKey",
                          data.update_key, FALSE) :
          IF u.result # "Ok"
          THEN kState' = "failed" /\ key_manager' = u.store
          ELSE \E r \in save_key(u.store, controlled_did_suffix, "RecoveryKey",
                                  data.recovery_key, FALSE) :
                   /\ key_manager' = r.store
                   /\ kState' = IF r.result = "Ok" THEN "built" ELSE "failed"
    /\ UNCHANGED <<kBefore, data, kUpdate, kRecovery>>
    /\ UNCHANGED <<commitmentVars, jsonVars, verifierVars, decodeVars, documentVars>>

\* controller.update_key()
UpdateKey ==
    /\ kState = "built"
    /\ kUpdate = "none"
    /\ kUpdate' = read_key(key_manager, controlled_did_suffix, "UpdateKey")
    /\ UNCHANGED <<kState, key_manager, kBefore, data, kRecovery>>
    /\ UNCHANGED <<commitmentVars, jsonVars, verifierVars, decodeVars, documentVars>>

\* controller.recovery_key()
RecoveryKey ==
    /\ kState = "built"
    /\ kRecovery = "none"
    /\ kRecovery' = read_key(key_manager, controlled_did_suffix, "RecoveryKey")
    /\ UNCHANGED <<kState, key_manager, kBefore, data, kUpdate>>
    /\ UNCHANGED <<commitmentVars, jsonVars, verifierVars, decodeVars, documentVars>>

KeyNext ==
    \/ TryFrom
    \/ UpdateKey
    \/ RecoveryKey

SpecKey == KeyInit /\ [][KeyNext]_vars

\* ------------------------------------------------------------------------
\* Properties
\* ------------------------------------------------------------------------

\* Equality of two JSON values, of two results.
JEq(a, b) == a = b

SameResult(a, b) == a.tag = b.tag /\ (a.tag # "Panic" => a.val = b.val)

\* cm.verify(cmTarget) has been called.
Verified == pc = "commitment" /\ cmResult # "none"

\* The decoder succeeds on cm's candidate data and the expected data are
\* contained in the decoded value.
ContentHolds ==
    /\ commitment_content(cm).tag = "Ok"
    /\ json_contains(commitment_content(cm).val, expected_data(cm))

\* cm.hash() returns t.
HashIs(t) == hash(cm).tag = "Ok" /\ hash(cm).val = t

\* C1: a commitment whose decoder succeeds on its candidate data, whose expected
\* data are contained in the decoded candidate and whose hash() returns t
\* verifies against t: verify(t) = Ok.
C1_VerifyOk == (Verified /\ ContentHolds /\ HashIs(cmTarget)) => cmResult = "Ok"

C1_Witness == Verified /\ ContentHolds /\ HashIs(cmTarget) /\ cmResult = "Ok"

\* C2 as stated: for any commitment and any target other than its hash, also
\* when the content does not verify, verify returns FailedHashVerification.
C2_Original ==
    (Verified /\ hash(cm).tag = "Ok" /\ hash(cm).val # cmTarget)
        => cmResult = "FailedHashVerification"

\* C2 as amended: for a commitment whose content verification succeeds and any
\* target other than its hash, verify returns FailedHashVerification.
C2_TargetMismatch ==
    (Verified /\ verify_content(cm) = "Ok"
        /\ hash(cm).tag = "Ok" /\ hash(cm).val # cmTarget)
        => cmResult = "FailedHashVerification"

C2_Witness ==
    /\ Verified /\ ContentHolds
    /\ hash(cm).tag = "Ok" /\ hash(cm).val # cmTarget
    /\ cmResult = "FailedHashVerification"

\* C3: verify_content has exactly three outcomes: DataDecodingError whenever the
\* decoder returns an error, FailedContentVerification when decoding succeeds
\* and the expected data are not contained in the decoded value, Ok otherwise.
C3_ThreeOutcomes ==
    (pc = "commitment" /\ cmContent # "none") =>
        LET decoded == commitment_content(cm)
        IN cmContent =
             IF decoded.tag = "Err" THEN "DataDecodingError"
             ELSE IF decoded.tag = "Ok" /\ ~json_contains(decoded.val, expected_data(cm))
                  THEN "FailedContentVerification"
                  ELSE "Ok"

\* C4: once the candidate data of a commitment that verified against t are
\* replaced by other bytes, verify(t) returns DataDecodingError,
\* FailedContentVerification or FailedHashVerification.
C4_Tampering ==
    (Verified /\ tampered /\ cmTarget = origTarget) =>
        cmResult \in {"DataDecodingError", "FailedContentVerification",
                      "FailedHashVerification"}

\* ChainedCommitment::verify has ended (with an outcome or an abort).
ChainVerified == result # "none"

Commitments == chain.commitments

\* The expected data of every commitment but the first are strings.
AllStrings ==
    \A i \in 2..Len(Commitments) : expected_data(Commitments[i]).t = "String"

\* The target the chain gives its i-th commitment: the expected data of the
\* next one, the chain's own target for the last.
TargetOf(i) ==
    IF i = Len(Commitments) THEN target ELSE expected_data(Commitments[i + 1]).s

\* C5: for a chain whose non-first expected data are all strings, chain.verify(T)
\* is Ok if and only if every commitment verifies against the expected data of
\* its successor and the last one against T.
C5_Equivalence ==
    (ChainVerified /\ Commitments # <<>> /\ AllStrings) =>
        (result = "Ok" <=>
            \A i \in 1..Len(Commitments) : verify(Commitments[i], TargetOf(i)) = "Ok")

C5_Witness ==
    /\ ChainVerified /\ AllStrings /\ Len(Commitments) >= 2 /\ result = "Ok"

\* A chain made by new and extended by append alone.
AppendOnly == pc \in {"chain", "loop", "done", "aborted"} /\ ~mutated

\* C6: after new and any appends, the expected data of every commitment but
\* the first are the JSON string of its predecessor's hash.
C6_ChainingLaw ==
    AppendOnly =>
        \A i \in 1..(Len(Commitments) - 1) :
            /\ hash(Commitments[i]).tag = "Ok"
            /\ JEq(expected_data(Commitments[i + 1]), json(hash(Commitments[i]).val))

\* C7: after a successful append(t) the chain's hash is the hash of
\* t.to_commitment(json(h)), h being the chain's hash before the append.
C7_Composition ==
    appendResult = "Ok" =>
        SameResult(hash(chain), hash(to_commitment(lastTrivial, json(preHash.val))))

C7_Witness ==
    /\ appendResult = "Ok"
    /\ hash(chain).tag = "Ok"
    /\ ~SameResult(hash(chain), preHash)

\* C8: after new(cm) and any appends the chain's candidate data, decoder and
\* expected data are those of cm, and its hash is that of its last commitment.
C8_Delegation ==
    AppendOnly =>
        /\ Commitments # <<>>
        /\ candidate_data(chain) = candidate_data(cm)
        /\ decode_candidate_data(chain) = decode_candidate_data(cm)
        /\ JEq(expected_data(chain), expected_data(cm))
        /\ SameResult(hash(chain), hash(Commitments[Len(Commitments)]))

C8_Witness ==
    /\ AppendOnly
    /\ Len(Commitments) = MaxChain
    /\ ~SameResult(hash(chain), hash(cm))
    /\ ~JEq(expected_data(Commitments[Len(Commitments)]), expected_data(cm))

\* C9: verify on a chain with no commitments returns EmptyIteratedCommitment.
C9_EmptyChain ==
    (ChainVerified /\ Commitments = <<>>) => result = "EmptyIteratedCommitment"

\* The i-th commitment has a target: it is the last, or the expected data of its
\* successor are a string.
HasTarget(i) ==
    i = Len(Commitments) \/ expected_data(Commitments[i + 1]).t = "String"

\* The calls of verify the chain has made are those of the commitments 1..k, in
\* this order, each with the target the chain gives it.
LogInOrder == \A j \in 1..Len(log) : log[j] = <<j, TargetOf(j)>>

\* The i-th commitment verifies against the target the chain gives it, or,
\* having none, against its own hash.
MayPass(i) ==
    verify(Commitments[i],
           IF HasTarget(i) \/ hash(Commitments[i]).tag # "Ok"
           THEN TargetOf(i)
           ELSE hash(Commitments[i]).val) = "Ok"

\* The i-th commitment fails with e against the target the chain gives it, or,
\* having none, against its own hash or against a string that is not its hash.
MayFailWith(i, e) ==
    \/ verify(Commitments[i], TargetOf(i)) = e
    \/ /\ ~HasTarget(i)
       /\ hash(Commitments[i]).tag = "Ok"
       /\ verify(Commitments[i], hash(Commitments[i]).val) = e

\* C10 as stated: the commitments are verified in index order, an error the
\* chain returns is the error of the lowest-index commitment that fails, and no
\* commitment after that one is verified.
C10_Original ==
    /\ LogInOrder
    /\ (ChainVerified /\ result # "Ok" /\ Commitments # <<>>) =>
          \E k \in 1..Len(Commitments) :
              /\ \A i \in 1..(k - 1) : MayPass(i)
              /\ MayFailWith(k, result)
              /\ Len(log) <= k

\* The outcome of the chain's i-th step: DataDecodingError if the expected data
\* of the next commitment are not a string, else that of the i-th verify.
StepOutcome(i) ==
    IF ~HasTarget(i) THEN "DataDecodingError" ELSE verify(Commitments[i], TargetOf(i))

\* The steps that do not end Ok.
FailingSteps == {i \in 1..Len(Commitments) : StepOutcome(i) # "Ok"}

FirstFailingStep == CHOOSE k \in FailingSteps : \A i \in FailingSteps : k <= i

\* C10 as amended: the chain checks its first commitment's content, then takes
\* the steps in index order and stops at the first that fails, with that step's
\* outcome; a step fails with DataDecodingError, before its commitment is
\* verified, when the next expected data are not a string.
C10_ShortCircuit ==
    /\ LogInOrder
    /\ ChainVerified =>
          IF verify_content(chain) # "Ok"
          THEN result = verify_content(chain) /\ log = <<>>
          ELSE IF FailingSteps = {}
          THEN result = "Ok" /\ Len(log) = Len(Commitments)
          ELSE /\ result = StepOutcome(FirstFailingStep)
               /\ Len(log) = IF HasTarget(FirstFailingStep)
                             THEN FirstFailingStep
                             ELSE FirstFailingStep - 1

C10_Witness ==
    /\ ChainVerified
    /\ verify_content(chain) = "Ok"
    /\ FailingSteps # {}
    /\ FirstFailingStep = 2
    /\ Len(Commitments) = 3
    /\ HasTarget(2)
    /\ StepOutcome(3) # "Ok"

\* C11: TimestampCommitment::new(d, ts) has the candidate data, the hasher and
\* the decoder of d, hence the hash of d, and the JSON number ts as expected data.
C11_TimestampBinding ==
    tsState # "none" =>
        /\ candidate_data(tsCm) = candidate_data(tsFrom)
        /\ tsCm.hasher = tsFrom.hasher
        /\ decode_candidate_data(tsCm) = decode_candidate_data(tsFrom)
        /\ SameResult(hash(tsCm), hash(tsFrom))
        /\ JEq(expected_data(tsCm), JNum(tsArg))

C11_Witness ==
    /\ tsState = "new"
    /\ hash(tsFrom).tag = "Ok"
    /\ hash(tsCm).tag = "Ok"
    /\ ~JEq(expected_data(tsFrom), expected_data(tsCm))

\* C12: to_commitment(new_expected) of a TimestampCommitment returns the
\* commitment as it was, whatever new_expected is: the expected data stay the
\* timestamp, the candidate data, hasher and decoder stay the same.
C12_PromotionNoOp ==
    tsState = "promoted" =>
        /\ tsPromoted = tsCm
        /\ JEq(expected_data(tsPromoted), JNum(tsArg))
        /\ candidate_data(tsPromoted) = candidate_data(tsCm)
        /\ tsPromoted.hasher = tsCm.hasher
        /\ decode_candidate_data(tsPromoted) = decode_candidate_data(tsCm)

C12_Witness ==
    /\ tsState = "promoted"
    /\ ~JEq(tsExpected, JNum(tsArg))
    /\ JEq(expected_data(tsPromoted), JNum(tsArg))

\* C13: containment is reflexive, transitive, and monotone under object
\* extension: what is contained in an object is contained in the object with
\* additional keys.
C13_Containment ==
    jState \in {"values", "extended"} =>
        /\ json_contains(jD, jD) /\ json_contains(jE, jE) /\ json_contains(jF, jF)
        /\ (json_contains(jD, jE) /\ json_contains(jE, jF)) => json_contains(jD, jF)
        /\ (jState = "extended" /\ json_contains(jBase, jE)) => json_contains(jD, jE)
        /\ (jr[1] /\ jr[2]) => jr[3]
        /\ jr # <<FALSE, FALSE, FALSE, FALSE>> => jr[4]

C13_Witness ==
    /\ jState = "extended"
    /\ jr[1] /\ jr[2] /\ jr[3] /\ jr[4]
    /\ json_contains(jBase, jE)
    /\ jE.t = "Object" /\ jE.o # <<>> /\ jE # jBase
    /\ jF # jE

RECURSIVE HoldsHash(_, _)
\* The value v holds the string h as the value of a key, at any depth.
HoldsHash(v, h) ==
    CASE v.t = "Object" ->
            \E j \in 1..Len(v.o) : v.o[j][2] = JStr(h) \/ HoldsHash(v.o[j][2], h)
      [] v.t = "Array" -> \E j \in 1..Len(v.a) : HoldsHash(v.a[j], h)
      [] OTHER -> FALSE

\* The decoded candidate of the i-th commitment is an object that holds the hash
\* of the commitment before it.
RefersToPredecessor(i) ==
    /\ commitment_content(Commitments[i]).tag = "Ok"
    /\ commitment_content(Commitments[i]).val.t = "Object"
    /\ hash(Commitments[i - 1]).tag = "Ok"
    /\ HoldsHash(commitment_content(Commitments[i]).val, hash(Commitments[i - 1]).val)

\* C14: a chain made by new(C0) and appends, where C0 verifies against its own
\* hash and the decoded candidate of every appended commitment is an object
\* holding its predecessor's hash under a key, verifies Ok against the hash of
\* its last commitment.
C14_EndToEnd ==
    ( /\ ChainVerified /\ AppendOnly
      /\ Len(Commitments) >= 2
      /\ hash(Commitments[1]).tag = "Ok"
      /\ verify(Commitments[1], hash(Commitments[1]).val) = "Ok"
      /\ \A i \in 2..Len(Commitments) : RefersToPredecessor(i)
      /\ hash(chain).tag = "Ok" /\ target = hash(chain).val )
    => result = "Ok"

\* C15 as stated: an error of the chain build or of the proof verification is
\* what verify returns, kind and payload.
C15_Original ==
    /\ buildResult.tag = "Err" => vResult = buildResult
    /\ proofsResult.tag = "Err" => vResult = proofsResult

\* C15 as amended: verify returns an error e of the chain build as
\* ChainBuildFailure and an error e of the proof verification as InvalidChain,
\* each with the text of e as its payload.
C15_Wrapped ==
    /\ buildResult.tag = "Err" =>
          vResult = [tag |-> "Err", kind |-> "ChainBuildFailure",
                     payload |-> <<buildResult.kind>> \o buildResult.payload]
    /\ proofsResult.tag = "Err" =>
          vResult = [tag |-> "Err", kind |-> "InvalidChain",
                     payload |-> <<proofsResult.kind>> \o proofsResult.payload]

C15_Witness ==
    /\ buildResult.tag = "Err"
    /\ buildResult.kind = "UnresolvableDID"
    /\ Len(links) >= 1
    /\ vResult.kind = "ChainBuildFailure"

\* The proofs verified so far all passed, but for the last.
OnlyLastFails ==
    \A i \in 1..(Len(checked) - 1) : checked[i].result.tag = "Ok"

\* C16: verify returns Ok only after the chain build, the proof of every link
\* and the root timestamp check succeeded; the phases start in this order, the
\* proofs are not started after a chain build that fails, and the root check is
\* not started after a proof that fails.
C16_NoPartialSuccess ==
    vState # "idle" =>
        /\ phases \in {<<"build">>, <<"build", "proofs">>, <<"build", "proofs", "root">>}
        /\ vResult.tag = "Ok" =>
              /\ buildResult.tag = "Ok" /\ proofsResult.tag = "Ok"
              /\ Len(checked) = Len(links) - 1
              /\ \A i \in 1..Len(checked) : checked[i].result.tag = "Ok"
              /\ phases = <<"build", "proofs", "root">>
        /\ buildResult.tag # "Ok" => (phases = <<"build">> /\ checked = <<>>)
        /\ OnlyLastFails
        /\ (\E i \in 1..Len(checked) : checked[i].result.tag = "Err") =>
              (phases = <<"build", "proofs">> /\ vState = "done" /\ vResult.tag = "Err")

C16_Witness ==
    /\ vState = "done"
    /\ Len(checked) = 2
    /\ checked[1].result.tag = "Ok"
    /\ checked[2].result.tag = "Err"
    /\ phases = <<"build", "proofs">>

\* C17: in a chain that was built, the controller of every link but the last is
\* the DID of the next link, the last link is its own controller, and no DID
\* is there twice.
C17_ChainShape ==
    buildResult.tag = "Ok" =>
        /\ links # <<>>
        /\ links[1].did = did
        /\ \A i \in 1..(Len(links) - 1) :
              links[i].doc.controller = ControllerOne(links[i + 1].did)
        /\ links[Len(links)].doc.controller = ControllerOne(links[Len(links)].did)
        /\ \A i, j \in 1..Len(links) : links[i].did = links[j].did => i = j

C17_Witness ==
    /\ buildResult.tag = "Ok"
    /\ Len(links) = MaxDid

\* The chain build has ended.
BuildEnded == vState \notin {"idle", "build"}

\* The document resolved last is controlled by a DID the build has been at.
Revisits ==
    /\ lastRes.resolved
    /\ lastRes.doc.controller.t = "One"
    /\ lastRes.doc.controller.v[1] # ddid
    /\ lastRes.doc.controller.v[1] \in LinkDids(links)
    /\ get_proof(lastRes.doc_meta).tag = "Ok"

\* C18: the chain build ends, with a chain whose last link is its own controller
\* or with an error; when the controllers lead back to a DID of the chain
\* that is not its own controller, it ends with ChainBuildFailure.
C18_Terminates ==
    /\ <>BuildEnded
    /\ [](BuildEnded =>
            \/ /\ buildResult.tag = "Ok"
               /\ links # <<>>
               /\ links[Len(links)].doc.controller = ControllerOne(links[Len(links)].did)
            \/ /\ buildResult.tag = "Err"
               /\ buildResult.kind \in VerifierError)
    /\ []((BuildEnded /\ Revisits) =>
            (buildResult.tag = "Err" /\ buildResult.kind = "ChainBuildFailure"))
    /\ [](Len(links) <= MaxDid)

C18_Witness ==
    /\ BuildEnded /\ Revisits
    /\ Len(links) = MaxDid - 1
    /\ buildResult.kind = "ChainBuildFailure"

\* The keys of a document: the publicKeyJwk of its verification methods of the
\* map form.
KeysOf(doc) ==
    IF doc.verification_method.some
    THEN {doc.verification_method.v[k].public_key_jwk :
             k \in {n \in 1..Len(doc.verification_method.v) :
                       /\ doc.verification_method.v[n].form = "Map"
                       /\ doc.verification_method.v[n].public_key_jwk # "none"}}
    ELSE {}

\* C19: the proof of link i is verified against link i+1: a payload that is
\* present and is not the canonical hash of the document of link i gives
\* InvalidPayload(did_i); otherwise, when no key of the controller's document
\* verifies the signature, InvalidSignature(did_i); otherwise the link passes.
C19_LinkProof ==
    \A i \in 1..Len(checked) :
        LET p == checked[i].proof_value
            d == links[i].did
        IN checked[i].result =
             IF p.payload # <<>> /\ p.payload # <<"H", ToString(d)>>
             THEN [tag |-> "Err", kind |-> "InvalidPayload", payload |-> <<ToString(d)>>]
             ELSE IF p.signer \notin KeysOf(links[i + 1].doc)
             THEN [tag |-> "Err", kind |-> "InvalidSignature", payload |-> <<ToString(d)>>]
             ELSE VOk

C19_Witness ==
    /\ Len(checked) = 2
    /\ checked[2].result.kind = "InvalidPayload"
    /\ checked[2].proof_value.signer \notin KeysOf(links[3].doc)
    /\ checked[1].proof_value.payload = <<>>
    /\ checked[1].result.tag = "Ok"

\* C20: get_controller returns Ok(c) exactly when the controller of the document
\* is the single value c, and Err(FailureToGetController) when there is no
\* controller or there are many.
C20_GetController ==
    lastRes.resolved =>
        LET controller == lastRes.doc.controller
            r == get_controller(lastRes.doc)
        IN /\ \A c \in DIDs :
                 (r.tag = "Ok" /\ r.val = c) <=> controller = ControllerOne(c)
           /\ controller.t \in {"None", "Many"} =>
                 /\ r.tag = "Err"
                 /\ buildResult = VErr("FailureToGetController", <<>>)
           /\ r.tag \in {"Ok", "Err"}

C20_Witness ==
    /\ lastRes.resolved
    /\ lastRes.doc.controller.t = "Many"
    /\ Len(lastRes.doc.controller.v) = 1
    /\ buildResult = VErr("FailureToGetController", <<>>)

\* C21: get_proof returns Ok(p) exactly when the metadata have a property set
\* whose "proof" entry is a map whose "proofValue" entry is the string p; in
\* every other case it returns Err(FailureToGetProof).
C21_GetProof ==
    dProof # VNone =>
        IF dMeta.property_set /\ dMeta.proof = "Map" /\ dMeta.proofValue = "String"
        THEN dProof.tag = "Ok" /\ dProof.payload = dMeta.value
        ELSE dProof = VErr("FailureToGetProof", <<>>)

\* get_proof has returned the proof string "q".
C21_Witness ==
    /\ dProof.tag = "Ok"
    /\ dProof.payload = <<"q">>
    /\ dMeta.proofValue = "String"

\* The keys a document is claimed to give: those of its map entries that
\* have a JWK, in document order.
JwkEntries(doc) ==
    SelectSeq(doc.verification_method.v,
              LAMBDA m : m.form = "Map" /\ m.public_key_jwk # "none")

\* C28: extract_keys returns, in document order, exactly the publicKeyJwk of
\* every verification method of the map form that has one; the other entries
\* are skipped, and a document without verificationMethod gives the empty list.
C28_ExtractKeys ==
    dKeys.done =>
        IF dDoc.verification_method.some
        THEN /\ Len(dKeys.v) = Len(JwkEntries(dDoc))
             /\ \A i \in 1..Len(dKeys.v) : dKeys.v[i] = JwkEntries(dDoc)[i].public_key_jwk
        ELSE dKeys.v = <<>>

\* Two keys were extracted around entries that are skipped.
C28_Witness ==
    /\ dKeys.done
    /\ dDoc.verification_method.v =
           <<VerificationMethod("Map", "k2"), VerificationMethod("DIDURL", "none"),
             VerificationMethod("Map", "k1")>>
    /\ dKeys.v = <<"k2", "k1">>

\* The OP_RETURN scripts of a transaction that render as UTF-8 containing "ion:".
IonScripts(bytes) ==
    SelectSeq(bytes.scripts,
              LAMBDA x : x.op_return /\ x.utf8
                         /\ Find(x.str, ION_METHOD \o <<DID_DELIMITER>>) # 0)

\* The text after the operation count delimiter.
AfterDelimiter(str) == From(str, RFind(str, ION_OPERATION_COUNT_DELIMITER) + 1)

\* C22: decoding a deserialisable transaction with the TxCommitment decoder
\* returns the object {"cid": <cid>}, <cid> being the text after the operation
\* count delimiter, when exactly one OP_RETURN script renders as UTF-8 containing
\* "ion:", and fails with DataDecodingError when there is none or more than one;
\* the other scripts do not count.
C22_TxDecoding ==
    (dcState = "done" /\ dcDecoder = "Tx" /\ dcBytes.fmt = "tx") =>
        IF Len(IonScripts(dcBytes)) = 1
        THEN /\ dcResult.tag = "Ok"
             /\ JEq(dcResult.val,
                    JObj(<< <<CID_KEY, JStr(AfterDelimiter(IonScripts(dcBytes)[1].str))>> >>))
        ELSE dcResult = Err("DataDecodingError")

\* C23: every decoder returns a decoded JSON value or DataDecodingError, for
\* every candidate byte sequence: no other error kind, and no abort.
C23_DecoderTotal ==
    dcState = "done" => (dcResult.tag = "Ok" \/ dcResult = Err("DataDecodingError"))

\* The key of a type that was stored for the controlled DID before try_from.
StoredBefore(key_type) == kBefore[controlled_did_suffix][key_type]

C25_RootCheck ==
    (vState \in {"done", "aborted"} /\ proofsResult.tag = "Ok") =>
        LET r == links[Len(links)].did
            t == verified_timestamp(r)
        IN /\ vResult.tag \in {"Ok", "Err"}
           /\ vResult = VErr("InvalidRoot", <<ToString(r)>>)
                 <=> (t.tag = "Ok" /\ t.val # root_timestamp)
           /\ vResult = VOk <=> (t.tag = "Ok" /\ t.val = root_timestamp)

\* C26: when the expected data of some commitment C(i+1) of the chain are not a
\* JSON string, and the content check and the steps of all earlier commitments
\* succeed, ChainedCommitment.verify returns DataDecodingError without verifying
\* Ci, whether or not Ci would verify.
C26_NonStringLink ==
    ChainVerified =>
        \A i \in 1..(Len(Commitments) - 1) :
            (/\ ~HasTarget(i)
             /\ verify_content(chain) = "Ok"
             /\ \A j \in 1..(i - 1) : StepOutcome(j) = "Ok")
            => (result = "DataDecodingError" /\ Len(log) = i - 1)

\* The third expected data are no string, the first commitment verified, and the
\* second was not verified although it verifies against its own hash.
C26_Witness ==
    /\ ChainVerified
    /\ Len(Commitments) = 3
    /\ ~HasTarget(2)
    /\ verify_content(chain) = "Ok"
    /\ StepOutcome(1) = "Ok"
    /\ result = "DataDecodingError"
    /\ log = <<<<1, TargetOf(1)>>>>
    /\ hash(Commitments[2]).tag = "Ok"
    /\ verify(Commitments[2], hash(Commitments[2]).val) = "Ok"

\* C27: the proofs of the links are verified in chain order, from the input DID
\* towards the root: the i-th proof verified is that of link i, against link
\* i+1, and is verified only after the proofs of the links before it passed; a
\* proof that fails is the last one verified; and the proof of the last link,
\* which controls itself, is never verified.
C27_ChainOrder ==
    vState # "idle" =>
        /\ Len(checked) <= (IF links = <<>> THEN 0 ELSE Len(links) - 1)
        /\ \A i \in 1..Len(checked) :
              /\ checked[i].result =
                    verify_link(links[i].did, checked[i].proof_value, links[i + 1].doc)
              /\ i < Len(checked) => checked[i].result.tag = "Ok"
        /\ (vState = "proofs" => link = Len(checked) + 1)
        /\ (checked # <<>> /\ checked[Len(checked)].result.tag = "Err") =>
              (vState = "done" /\ proofsResult = checked[Len(checked)].result)
        /\ proofsResult.tag = "Ok" => Len(checked) = Len(links) - 1

\* The proofs of the two links below the root passed, in this order, and the
\* root check was reached without a proof of the root link.
C27_Witness ==
    /\ proofsResult.tag = "Ok"
    /\ Len(links) = 3
    /\ links[1].did = did
    /\ get_controller(links[3].doc).val = links[3].did
    /\ Len(checked) = 2
    /\ checked[1].proof_value # checked[2].proof_value

\* C29: Commitment.verify checks the content before the hash: when the content
\* check fails, verify returns its DataDecodingError or FailedContentVerification
\* for every target, whatever the hasher would return; FailedHashVerification
\* and FailedToComputeHash are returned only when the content check succeeded.
C29_ContentFirst ==
    Verified =>
        /\ verify_content(cm) \in {"DataDecodingError", "FailedContentVerification"}
              => cmResult = verify_content(cm)
        /\ cmResult \in {"FailedHashVerification", "FailedToComputeHash"}
              => verify_content(cm) = "Ok"

\* The content check failed on a commitment whose hash is not the target either.
C29_Witness ==
    /\ Verified
    /\ verify_content(cm) = "FailedContentVerification"
    /\ hash(cm).tag = "Ok"
    /\ hash(cm).val # cmTarget
    /\ cmResult = "FailedContentVerification"

\* C30: append either succeeds, and then the chain is one commitment longer and
\* the commitments it had are unchanged and in the same order, or, the chain's
\* hash not being computable, it returns the hash error and leaves the chain as
\* it was; a chain made by new and extended by append alone is never empty.
C30_AppendAtomic ==
    /\ appendResult # "none" =>
          IF appendResult = "Ok"
          THEN /\ Len(Commitments) = Len(preChain.commitments) + 1
               /\ SubSeq(Commitments, 1, Len(preChain.commitments)) = preChain.commitments
               /\ hash(preChain).tag = "Ok"
          ELSE /\ chain = preChain
               /\ hash(preChain).tag # "Ok"
               /\ hash(preChain).tag = "Err" => appendResult = hash(preChain).val
    /\ AppendOnly => (Commitments # <<>> /\ appendResult # "Panic")

\* An append to a chain of two commitments returned the error of the hash and
\* left the two commitments in place.
C30_Witness ==
    /\ AppendOnly
    /\ appendResult = "FailedToComputeHash"
    /\ Len(Commitments) = 2
    /\ chain = preChain

====
